---- MODULE Spec2Model ----
(***************************************************************************)
(* Model of encoding/protoavro/decode.go: the schema-directed decoder that *)
(* turns a generic Avro-JSON value tree into a protobuf message.           *)
(*                                                                         *)
(* A generic value is a tagged record: Null, IntV(i), StrV(s), ...,        *)
(* SeqV(<<v1, ...>>) and MapV(<< <<k1, v1>>, ... >>).  A Go map has no     *)
(* iteration order of its own; `range` picks one per run.  The order the   *)
(* run picked is part of the input here: a mapping is the sequence of its  *)
(* entries in the order `range` yields them, and every order of every      *)
(* mapping is an input.                                                    *)
(*                                                                         *)
(* A message is a function from the text names of its fields to            *)
(* [has, val]: has is the field's presence (set by Set), val its value.    *)
(***************************************************************************)
EXTENDS Integers, Sequences, FiniteSets, TLC

VARIABLES
    pc,        \* position of the top-level decodeMessage call: "start", "range", "done"
    target,    \* full name of the destination message's descriptor
    options,   \* options.MarshalOptions.ExtraFields, as the set of their FieldName
    data,      \* the generic value decodeJSON was called with
    msg0,      \* the destination message as it was at the call
    cur,       \* data of the decodeMessage frame now running (after union unwraps)
    rest,      \* entries of d the range loop has not yielded yet
    msg,       \* the destination message
    err,       \* the returned error, NoErr while none
    sets,      \* per field: how many times msg.Set was called on it by the range loop
    unwraps,   \* how many times the union was unwrapped
    wktOk      \* verdict of the well-known-type decoder on this input

vars == <<pc, target, options, data, msg0, cur, rest, msg, err, sets, unwraps, wktOk>>

----------------------------------------------------------------------------
(* Bounds of the input space.                                              *)

\* Most entries a top-level input mapping has.
MaxEntries == 2
\* Most elements an input sequence has.
MaxLen == 2

----------------------------------------------------------------------------
(* Generic values: interface{} as produced by the JSON/Avro parser.        *)

Null == [t |-> "null"]
IntV(i) == [t |-> "int", v |-> i]
StrV(s) == [t |-> "str", v |-> s]
BoolV(b) == [t |-> "bool", v |-> b]
BytesV(s) == [t |-> "bytes", v |-> s]
F64V(x) == [t |-> "f64", v |-> x]
F32V(x) == [t |-> "f32", v |-> x]
SeqV(s) == [t |-> "seq", v |-> s]
MapV(es) == [t |-> "map", v |-> es]

\* Keys of a mapping given as its sequence of entries.
Keys(d) == {d[i][1] : i \in DOMAIN d}

\* d[key] for a key of the mapping.
Lookup(d, key) == d[CHOOSE i \in DOMAIN d : d[i][1] = key][2]

----------------------------------------------------------------------------
(* Errors.  kind says what failed, role is the %s/%T detail of the message *)
(* and field is the field name a "field %s: %w" wrapper put in front of    *)
(* it ("" when the error was returned unwrapped).                          *)

Err(kind, role, field) == [kind |-> kind, role |-> role, field |-> field]
NoErr == Err("none", "", "")
WithField(e, name) == [e EXCEPT !.field = name]

----------------------------------------------------------------------------
(* The schema the decoder walks: protoreflect descriptors.                 *)

MsgName == "pkg.Msg"
SubName == "pkg.Sub"
WKTName == "google.protobuf.Timestamp"
ColorName == "pkg.Color"

FD(name, json, kind, card, ref) ==
    [name |-> name, json |-> json, kind |-> kind, card |-> card, ref |-> ref]

\* message Msg. `memo` carries json_name "note_id", the text name of the
\* field declared after it.
MsgFields ==
    << FD("id", "id", "int32", "one", ""),
       FD("color_tag", "colorTag", "enum", "one", ColorName),
       FD("memo", "note_id", "string", "one", ""),
       FD("note_id", "noteId", "string", "one", ""),
       FD("sub", "sub", "message", "one", SubName),
       FD("nums", "nums", "int32", "list", ""),
       FD("subs", "subs", "message", "list", SubName),
       FD("tags", "tags", "enum", "list", ColorName),
       FD("attrs", "attrs", "message", "map", ""),
       FD("total", "total", "int64", "one", ""),
       FD("mask", "mask", "uint32", "one", ""),
       FD("big", "big", "uint64", "one", ""),
       FD("flag", "flag", "bool", "one", ""),
       FD("blob", "blob", "bytes", "one", ""),
       FD("ratio", "ratio", "double", "one", ""),
       FD("approx", "approx", "float", "one", "") >>

SubFields ==
    << FD("id", "id", "int32", "one", ""),
       FD("color_tag", "colorTag", "enum", "one", ColorName) >>

WKTFields ==
    << FD("seconds", "seconds", "int64", "one", ""),
       FD("nanos", "nanos", "int32", "one", "") >>

\* desc.Fields()
Fields(desc) ==
    CASE desc = MsgName -> MsgFields
      [] desc = SubName -> SubFields
      [] desc = WKTName -> WKTFields

FieldNames(desc) == {Fields(desc)[i].name : i \in DOMAIN Fields(desc)}

\* The descriptor of the field with this text name.
Field(desc, name) ==
    Fields(desc)[CHOOSE i \in DOMAIN Fields(desc) : Fields(desc)[i].name = name]

\* desc.Fields().ByJSONName(name): the field's text name, "" for nil.  The
\* first declared field wins.
ByJSONName(desc, name) ==
    LET fs == Fields(desc)
        hit == {i \in DOMAIN fs : fs[i].json = name}
    IN  IF hit = {} THEN ""
        ELSE fs[CHOOSE i \in hit : \A j \in hit : i <= j].name

\* desc.Fields().ByTextName(name)
ByTextName(desc, name) == IF name \in FieldNames(desc) THEN name ELSE ""

\* f.Enum().Values(): name -> number
EnumValues(ref) == [n \in {"RED", "BLUE"} |-> IF n = "RED" THEN 0 ELSE 1]

RECURSIVE EmptyMessage(_)

\* val.NewField(f) / list.NewElement(): the default of a scalar, a new empty
\* list, map or message.
NewElement(f) ==
    CASE f.kind = "message" -> EmptyMessage(f.ref)
      [] f.kind \in {"string", "bytes"} -> ""
      [] f.kind = "bool" -> FALSE
      [] OTHER -> 0

NewField(f) ==
    CASE f.card = "list" -> << >>
      [] f.card = "map" -> {}
      [] OTHER -> NewElement(f)

\* A message none of whose fields is set.
EmptyMessage(desc) ==
    [n \in FieldNames(desc) |-> [has |-> FALSE, val |-> NewField(Field(desc, n))]]

\* val.Set(f, v)
Set(m, name, v) == [m EXCEPT ![name] = [has |-> TRUE, val |-> v]]

----------------------------------------------------------------------------
(* Collaborators of decode.go that live in other files of the package.     *)

\* isWKT(fullName)
isWKT(name) == name = WKTName

\* decodeWKT(d, msg): populates the message or fails; which of the two is
\* the well-known-type decoder's verdict wktOk.
decodeWKT(d, m) ==
    IF wktOk THEN [err |-> NoErr, msg |-> Set(m, "seconds", 1)]
    ELSE [err |-> Err("wkt", WKTName, ""), msg |-> m]

\* decodeStringLike(data, role)
decodeStringLike(d, role) ==
    IF d.t = "str" THEN [err |-> NoErr, val |-> d.v]
    ELSE [err |-> Err("expected", role, ""), val |-> ""]

\* decodeBoolLike(data, role)
decodeBoolLike(d, role) ==
    IF d.t = "bool" THEN [err |-> NoErr, val |-> d.v]
    ELSE [err |-> Err("expected", role, ""), val |-> FALSE]

\* decodeIntLike(data, role)
decodeIntLike(d, role) ==
    IF d.t = "int" THEN [err |-> NoErr, val |-> d.v]
    ELSE [err |-> Err("expected", role, ""), val |-> 0]

\* decodeBytesLike(data, role)
decodeBytesLike(d, role) ==
    IF d.t = "bytes" THEN [err |-> NoErr, val |-> d.v]
    ELSE [err |-> Err("expected", role, ""), val |-> ""]

\* decodeListLike(data, role)
decodeListLike(d, role) ==
    IF d.t = "seq" THEN [err |-> NoErr, val |-> d.v]
    ELSE [err |-> Err("expected", role, ""), val |-> << >>]

\* decodeMap(data, f, mp, options) for map<string, int32>: every pair of the
\* mapping is coerced and inserted into mp; val is mp as the call leaves it.
decodeMap(d, f, mp, o) ==
    IF d.t # "map" THEN [err |-> Err("expected", "map", ""), val |-> mp]
    ELSE LET bad == {i \in DOMAIN d.v : d.v[i][2].t # "int"}
             first == IF bad = {} THEN Len(d.v) + 1
                      ELSE CHOOSE i \in bad : \A j \in bad : i <= j
         IN  [err |-> IF bad = {} THEN NoErr ELSE Err("expected", "int", ""),
              val |-> mp \cup {<<d.v[i][1], d.v[i][2].v>> : i \in 1..(first - 1)}]

----------------------------------------------------------------------------
(* Fixed-width conversions.  Input integers are drawn from 0 .. 2^31 - 1,  *)
(* where int32(i), uint32(i) and uint64(i) all keep the value of i.        *)

ToInt32(i) == i
ToUint32(i) == i
ToUint64(i) == i

----------------------------------------------------------------------------
(* findField                                                               *)

\* A resolver that consults the text names before the JSON names.
findField_TextFirst(desc, name, o) ==
    IF ByTextName(desc, name) # "" THEN [ok |-> TRUE, name |-> ByTextName(desc, name)]
    ELSE IF ByJSONName(desc, name) # "" THEN [ok |-> TRUE, name |-> ByJSONName(desc, name)]
    ELSE IF name \in o THEN [ok |-> TRUE, name |-> ""]
    ELSE [ok |-> FALSE, name |-> ""]

\* [ok, name]: name is the text name of the resolved field, "" for a nil
\* descriptor (an extra field of the options, or no field at all).
findField(desc, name, o) ==
    IF ByJSONName(desc, name) # "" THEN [ok |-> TRUE, name |-> ByJSONName(desc, name)]
    ELSE IF ByTextName(desc, name) # "" THEN [ok |-> TRUE, name |-> ByTextName(desc, name)]
    ELSE IF name \in o THEN [ok |-> TRUE, name |-> ""]
    ELSE [ok |-> FALSE, name |-> ""]

----------------------------------------------------------------------------
(* decodeMessage, decodeField, decodeFieldKind                             *)

RECURSIVE decodeMessage(_, _, _, _)
RECURSIVE rangeEntries(_, _, _, _)
RECURSIVE decodeEntry(_, _, _, _)
RECURSIVE decodeField(_, _, _, _)
RECURSIVE decodeMapField(_, _, _, _)
RECURSIVE decodeListField(_, _, _, _)
RECURSIVE decodeSingleField(_, _, _, _)
RECURSIVE appendElements(_, _, _, _)
RECURSIVE decodeFieldKind(_, _, _, _)

\* An unwrap that forgets to ask for exactly one entry.
UnwrapsUnion_AnySize(d, desc) == desc \in Keys(d)

\* The condition of the "unwrap union" branch of decodeMessage.
UnwrapsUnion(d, desc) == Len(d) = 1 /\ desc \in Keys(d)

\* An enum lookup that rejects a name the value table does not have.
enumValue_Strict(f, str) ==
    IF str \in DOMAIN EnumValues(f.ref)
    THEN [err |-> NoErr, val |-> EnumValues(f.ref)[str]]
    ELSE [err |-> Err("unknown_enum_value", str, f.name), val |-> 0]

\* The enum branch of decodeFieldKind once the name str is decoded: [err, val].
enumValue(f, str) ==
    IF str \in DOMAIN EnumValues(f.ref)
    THEN [err |-> NoErr, val |-> EnumValues(f.ref)[str]]
    ELSE [err |-> NoErr, val |-> 0]

\* One scalar branch: a failed coercion r is wrapped with the field's name,
\* a successful one yields the converted value conv.
Coerced(r, f, conv) ==
    IF r.err # NoErr THEN [err |-> WithField(r.err, f.name), val |-> r.val]
    ELSE [err |-> NoErr, val |-> conv]

\* decodeFieldKind(data, mutable, f, options): [err, val].
decodeFieldKind(d, mutable, f, o) ==
    CASE f.kind \in {"message", "group"} ->
            LET r == decodeMessage(d, mutable, f.ref, o)
            IN  IF r.err # NoErr THEN [err |-> r.err, val |-> mutable]
                ELSE [err |-> NoErr, val |-> r.msg]
      [] f.kind = "string" ->
            LET r == decodeStringLike(d, "string") IN Coerced(r, f, r.val)
      [] f.kind = "bool" ->
            LET r == decodeBoolLike(d, "boolean") IN Coerced(r, f, r.val)
      [] f.kind \in {"int32", "sfixed32", "sint32"} ->
            LET r == decodeIntLike(d, "int") IN Coerced(r, f, ToInt32(r.val))
      [] f.kind \in {"int64", "sfixed64", "sint64"} ->
            LET r == decodeIntLike(d, "long") IN Coerced(r, f, r.val)
      [] f.kind \in {"uint32", "fixed32"} ->
            LET r == decodeIntLike(d, "int") IN Coerced(r, f, ToUint32(r.val))
      [] f.kind \in {"uint64", "fixed64"} ->
            LET r == decodeIntLike(d, "long") IN Coerced(r, f, ToUint64(r.val))
      [] f.kind = "bytes" ->
            LET r == decodeBytesLike(d, "bytes") IN Coerced(r, f, r.val)
      [] f.kind = "enum" ->
            LET r == decodeStringLike(d, f.ref)
            IN  IF r.err # NoErr THEN [err |-> WithField(r.err, f.name), val |-> 0]
                ELSE enumValue(f, r.val)
      [] f.kind = "double" ->
            IF d.t # "f64" THEN [err |-> Err("expected_float64", d.t, f.name), val |-> 0]
            ELSE [err |-> NoErr, val |-> d.v]
      [] f.kind = "float" ->
            IF d.t # "f32" THEN [err |-> Err("expected_float32", d.t, f.name), val |-> 0]
            ELSE [err |-> NoErr, val |-> d.v]
      [] OTHER -> [err |-> Err("unexpected_kind", f.kind, ""), val |-> mutable]

\* A loop that drops a null element instead of appending a new element.
appendElements_SkipNull(els, list, f, o) ==
    IF els = << >> THEN [err |-> NoErr, val |-> list]
    ELSE IF Head(els).t = "null"
         THEN appendElements(Tail(els), list, f, o)
    ELSE LET r == decodeFieldKind(Head(els), NewElement(f), f, o)
         IN  IF r.err # NoErr THEN [err |-> r.err, val |-> list]
             ELSE appendElements(Tail(els), Append(list, r.val), f, o)

\* The loop over listData in decodeField: [err, val], val the list as the
\* loop leaves it.
appendElements(els, list, f, o) ==
    IF els = << >> THEN [err |-> NoErr, val |-> list]
    ELSE IF Head(els).t = "null"
         THEN appendElements(Tail(els), Append(list, NewElement(f)), f, o)
    ELSE LET r == decodeFieldKind(Head(els), NewElement(f), f, o)
         IN  IF r.err # NoErr THEN [err |-> r.err, val |-> list]
             ELSE appendElements(Tail(els), Append(list, r.val), f, o)

\* The results of decodeField: [err, msg, set], msg is val after the call and
\* set tells whether val.Set(f, ...) was called.
Failed(e, m) == [err |-> e, msg |-> m, set |-> FALSE]
Stored(m, f, v) == [err |-> NoErr, msg |-> Set(m, f.name, v), set |-> TRUE]

\* case f.IsMap()
decodeMapField(d, m, f, o) ==
    LET r == decodeMap(d, f, NewField(f), o)
    IN  IF r.err # NoErr THEN Failed(r.err, m) ELSE Stored(m, f, r.val)

\* A list branch that appends to the list of the message itself, so that the
\* elements decoded before a failure stay in the field.
decodeListField_InPlace(d, m, f, o) ==
    LET l == decodeListLike(d, "array")
    IN  IF l.err # NoErr THEN Failed(l.err, m)
        ELSE LET r == appendElements(l.val, NewField(f), f, o)
             IN  IF r.err # NoErr
                 THEN [err |-> r.err, msg |-> Set(m, f.name, r.val), set |-> FALSE]
                 ELSE Stored(m, f, r.val)

\* case f.IsList()
decodeListField(d, m, f, o) ==
    LET l == decodeListLike(d, "array")
    IN  IF l.err # NoErr THEN Failed(l.err, m)
        ELSE LET r == appendElements(l.val, NewField(f), f, o)
             IN  IF r.err # NoErr THEN Failed(r.err, m) ELSE Stored(m, f, r.val)

\* default:
decodeSingleField(d, m, f, o) ==
    LET r == decodeFieldKind(d, NewField(f), f, o)
    IN  IF r.err # NoErr THEN Failed(r.err, m) ELSE Stored(m, f, r.val)

\* A decodeField that stores the field's default for a null.
decodeField_NullResets(d, m, f, o) ==
    IF d.t = "null" THEN Stored(m, f, NewField(f))
    ELSE CASE f.card = "map" -> decodeMapField(d, m, f, o)
           [] f.card = "list" -> decodeListField(d, m, f, o)
           [] OTHER -> decodeSingleField(d, m, f, o)

\* decodeField(data, val, f, options)
decodeField(d, m, f, o) ==
    IF d.t = "null" THEN [err |-> NoErr, msg |-> m, set |-> FALSE]
    ELSE CASE f.card = "map" -> decodeMapField(d, m, f, o)
           [] f.card = "list" -> decodeListField(d, m, f, o)
           [] OTHER -> decodeSingleField(d, m, f, o)

\* A loop body that skips a name findField does not resolve.
decodeEntry_SkipUnknown(e, m, desc, o) ==
    LET fd == findField(desc, e[1], o)
    IN  IF ~fd.ok \/ fd.name = "" THEN [err |-> NoErr, msg |-> m, set |-> ""]
        ELSE LET r == decodeField(e[2], m, Field(desc, fd.name), o)
             IN  [err |-> r.err, msg |-> r.msg,
                  set |-> IF r.set THEN fd.name ELSE ""]

\* The body of the range loop of decodeMessage for the entry e = <<name, value>>:
\* [err, msg, set], set the text name of the field that was Set, "" if none.
decodeEntry(e, m, desc, o) ==
    LET fd == findField(desc, e[1], o)
    IN  IF ~fd.ok
        THEN [err |-> Err("unexpected_field", e[1], ""), msg |-> m, set |-> ""]
        ELSE IF fd.name = "" THEN [err |-> NoErr, msg |-> m, set |-> ""]
        ELSE LET r == decodeField(e[2], m, Field(desc, fd.name), o)
             IN  [err |-> r.err, msg |-> r.msg,
                  set |-> IF r.set THEN fd.name ELSE ""]

\* The range loop of decodeMessage over the entries es, in this order.
rangeEntries(es, m, desc, o) ==
    IF es = << >> THEN [err |-> NoErr, msg |-> m]
    ELSE LET r == decodeEntry(Head(es), m, desc, o)
         IN  IF r.err # NoErr THEN [err |-> r.err, msg |-> r.msg]
             ELSE rangeEntries(Tail(es), r.msg, desc, o)

\* decodeMessage(data, msg, options) with msg.Descriptor().FullName() = desc:
\* [err, msg], msg the destination after the call.
decodeMessage(d, m, desc, o) ==
    IF d.t = "null" THEN [err |-> NoErr, msg |-> m]
    ELSE IF d.t # "map" THEN [err |-> Err("expected_message", d.t, ""), msg |-> m]
    ELSE IF isWKT(desc) THEN decodeWKT(d.v, m)
    ELSE IF UnwrapsUnion(d.v, desc)
         THEN decodeMessage(Lookup(d.v, desc), m, desc, o)
    ELSE rangeEntries(d.v, m, desc, o)

----------------------------------------------------------------------------
(* Inputs.                                                                 *)

\* All sequences over S of at most n elements.
SeqsUpTo(S, n) == UNION {[1..k -> S] : k \in 0..n}

\* The sequences of at most n entries over the keys K and the values V in
\* which no key occurs twice: the mappings, in every iteration order.
Mappings(K, V, n) ==
    {es \in SeqsUpTo(K \X V, n) : \A i, j \in DOMAIN es : es[i][1] = es[j][1] => i = j}

\* {fullName: v}
Wrap(desc, v) == MapV(<< <<desc, v>> >>)

\* A record of Sub, and one with a name Sub does not have.
SubRecord == MapV(<< <<"id", IntV(7)>> >>)
BadRecord == MapV(<< <<"id", IntV(7)>>, <<"bogus", Null>> >>)

\* Names an input record of Msg uses.  "id" is a field and an extra field,
\* "extra" an extra field only, "bogus" neither; "note_id" is the JSON name
\* of one field and the text name of another.
RecordKeys ==
    {"id", "colorTag", "color_tag", "note_id", "sub", "extra", "bogus", MsgName}
RecordValues == {Null, IntV(7), StrV("BLUE"), StrV("GREEN"), SubRecord}

\* Every name a field of Msg answers to.
FieldKeys ==
    {MsgFields[i].name : i \in DOMAIN MsgFields} \cup {MsgFields[i].json : i \in DOMAIN MsgFields}
ElementValues == {Null, IntV(7), StrV("BLUE"), StrV("GREEN"), SubRecord, BadRecord}
FieldValues ==
    {Null, IntV(7), StrV("BLUE"), StrV("GREEN"), BoolV(TRUE), BytesV("ab"), F64V(3), F32V(3),
     SubRecord, BadRecord, Wrap(SubName, Null), Wrap(SubName, SubRecord),
     MapV(<< <<"a", IntV(7)>>, <<"b", StrV("BLUE")>> >>),
     MapV(<< <<"a", IntV(7)>>, <<"b", IntV(8)>> >>)}
      \cup {SeqV(s) : s \in SeqsUpTo(ElementValues, MaxLen)}

ExtraFieldSets == {{}, {"extra", "id", MsgName}}

\* A destination that already holds values.
Populated ==
    [EmptyMessage(MsgName) EXCEPT
        !["id"] = [has |-> TRUE, val |-> 5],
        !["color_tag"] = [has |-> TRUE, val |-> 1],
        !["memo"] = [has |-> TRUE, val |-> "m"],
        !["sub"] = [has |-> TRUE, val |-> Set(EmptyMessage(SubName), "id", 9)],
        !["nums"] = [has |-> TRUE, val |-> <<9>>],
        !["tags"] = [has |-> TRUE, val |-> <<1>>],
        !["attrs"] = [has |-> TRUE, val |-> {<<"z", 9>>}],
        !["ratio"] = [has |-> TRUE, val |-> 9]]

Destinations(desc) ==
    IF desc = MsgName THEN {EmptyMessage(MsgName), Populated} ELSE {EmptyMessage(desc)}

\* Inputs of the record-level specification: null, a non-mapping, every
\* mapping of at most MaxEntries entries, and each of these wrapped as a union.
RecordInputs ==
    LET base == {Null, IntV(7)}
                  \cup {MapV(es) : es \in Mappings(RecordKeys, RecordValues, MaxEntries)}
    IN  base \cup {Wrap(MsgName, b) : b \in base}

\* Inputs of the field-level specification: null, a non-mapping, and every
\* mapping of one entry: any field, any value.
FieldInputs ==
    {Null, IntV(7), Wrap(MsgName, Null)}
      \cup {MapV(<< <<k, v>> >>) : k \in FieldKeys, v \in FieldValues}

----------------------------------------------------------------------------
(* The top-level call decodeJSON(data, msg, options).                      *)

Start(inputs) ==
    /\ pc = "start"
    /\ unwraps = 0
    /\ err = NoErr
    /\ rest = << >>
    /\ \/ /\ target = MsgName
          /\ data \in inputs
          /\ options \in ExtraFieldSets
          /\ wktOk = TRUE
       \/ /\ target = WKTName
          /\ data \in {Null, IntV(7), SubRecord}
          /\ options = {}
          /\ wktOk \in BOOLEAN
    /\ msg0 \in Destinations(target)
    /\ msg = msg0
    /\ cur = data
    /\ sets = [n \in FieldNames(target) |-> 0]

Init == Start(RecordInputs)

InitField == Start(FieldInputs)

\* decodeMessage up to the range loop.
EnterMessage ==
    /\ pc = "start"
    /\ IF cur.t = "null"
       THEN /\ pc' = "done"
            /\ UNCHANGED <<cur, rest, msg, err, unwraps>>
       ELSE IF cur.t # "map"
       THEN /\ pc' = "done"
            /\ err' = Err("expected_message", cur.t, "")
            /\ UNCHANGED <<cur, rest, msg, unwraps>>
       ELSE IF isWKT(target)
       THEN /\ pc' = "done"
            /\ err' = decodeWKT(cur.v, msg).err
            /\ msg' = decodeWKT(cur.v, msg).msg
            /\ UNCHANGED <<cur, rest, unwraps>>
       ELSE IF UnwrapsUnion(cur.v, target)
       THEN /\ cur' = Lookup(cur.v, target)
            /\ unwraps' = unwraps + 1
            /\ UNCHANGED <<pc, rest, msg, err>>
       ELSE /\ pc' = "range"
            /\ rest' = cur.v
            /\ UNCHANGED <<cur, msg, err, unwraps>>
    /\ UNCHANGED <<target, options, data, msg0, sets, wktOk>>

\* One iteration of the range loop.
RangeEntry ==
    /\ pc = "range"
    /\ rest # << >>
    /\ LET r == decodeEntry(Head(rest), msg, target, options)
       IN  /\ msg' = r.msg
           /\ err' = r.err
           /\ sets' = IF r.set = "" THEN sets ELSE [sets EXCEPT ![r.set] = @ + 1]
           /\ IF r.err # NoErr
              THEN pc' = "done" /\ rest' = rest
              ELSE pc' = pc /\ rest' = Tail(rest)
    /\ UNCHANGED <<target, options, data, msg0, cur, unwraps, wktOk>>

\* The loop is over: return nil.
ReturnNil ==
    /\ pc = "range"
    /\ rest = << >>
    /\ pc' = "done"
    /\ UNCHANGED <<target, options, data, msg0, cur, rest, msg, err, sets, unwraps, wktOk>>

Next == EnterMessage \/ RangeEntry \/ ReturnNil

Spec == Init /\ [][Next]_vars

SpecField == InitField /\ [][Next]_vars

----------------------------------------------------------------------------
(* Properties.                                                             *)

JSONNames(desc) == {Fields(desc)[i].json : i \in DOMAIN Fields(desc)}

\* The name is no JSON name and no text name of the schema and no extra field.
Unknown(desc, name, o) ==
    name \notin JSONNames(desc) /\ name \notin FieldNames(desc) /\ name \notin o

\* The range loop is about to decode the entry Head(rest).
AtEntry == pc = "range" /\ rest # << >>

\* The mapping es in the order perm yields its entries.
Reordered(es, perm) == [i \in DOMAIN es |-> es[perm[i]]]

\* C1: union-unwrap transparency.  For a target that is no well-known type,
\* decoding {fullName: data} gives the error and the destination that
\* decoding data gives, and decoding {fullName: v} gives what decoding v
\* gives; the union is unwrapped only if the mapping has exactly one entry,
\* and then whether or not its key resolves as a field name.
UnionUnwrapTransparent ==
    (pc = "done" /\ ~isWKT(target)) =>
        /\ decodeMessage(Wrap(target, data), msg0, target, options)
              = [err |-> err, msg |-> msg]
        /\ (data.t = "map" /\ Len(data.v) = 1 /\ data.v[1][1] = target) =>
              /\ unwraps >= 1
              /\ decodeMessage(data.v[1][2], msg0, target, options)
                    = [err |-> err, msg |-> msg]
        /\ (data.t = "map" /\ Len(data.v) # 1) => unwraps = 0

\* A wrapped record was unwrapped and decoded into the destination.
UnionUnwrapWitness ==
    /\ pc = "done"
    /\ target = MsgName
    /\ data = Wrap(MsgName, MapV(<< <<"id", IntV(7)>>, <<"colorTag", StrV("BLUE")>> >>))
    /\ unwraps = 1
    /\ err = NoErr
    /\ msg0 = EmptyMessage(MsgName)
    /\ msg["id"] = [has |-> TRUE, val |-> 7]
    /\ msg["color_tag"] = [has |-> TRUE, val |-> 1]

\* C2: unknown input is never dropped.  If the mapping the range loop ran
\* over has a key that is no JSON name, no text name and no extra field, the
\* call returned an error, wherever the key stands in the iteration order
\* and whatever its value.
UnknownNeverDropped ==
    (/\ pc = "done"
     /\ ~isWKT(target)
     /\ cur.t = "map"
     /\ ~(Len(cur.v) = 1 /\ cur.v[1][1] = target)
     /\ \E i \in DOMAIN cur.v : Unknown(target, cur.v[i][1], options))
        => err # NoErr

\* The unknown key comes last, has a null value, and the entry before it was
\* decoded into the destination.
UnknownLastWitness ==
    /\ pc = "done"
    /\ data = MapV(<< <<"id", IntV(7)>>, <<"bogus", Null>> >>)
    /\ options = {}
    /\ msg["id"] = [has |-> TRUE, val |-> 7]
    /\ err = Err("unexpected_field", "bogus", "")

\* C3: no partial container commit.  Decoding a non-null value into a list
\* or map field either fails and leaves the destination as it was, or
\* succeeds and stores a container with one element per input element.
NoPartialCommit ==
    [][(/\ AtEntry
        /\ findField(target, Head(rest)[1], options).name # ""
        /\ Field(target, findField(target, Head(rest)[1], options).name).card
              \in {"list", "map"}
        /\ Head(rest)[2].t # "null")
          => LET f == Field(target, findField(target, Head(rest)[1], options).name)
                 v == Head(rest)[2]
             IN  /\ err' # NoErr => msg' = msg
                 /\ err' = NoErr =>
                       /\ v.t = (IF f.card = "list" THEN "seq" ELSE "map")
                       /\ msg'[f.name].has
                       /\ \A n \in DOMAIN msg : n # f.name => msg'[n] = msg[n]
                       /\ f.card = "list" => Len(msg'[f.name].val) = Len(v.v)
                       /\ f.card = "map" => Cardinality(msg'[f.name].val) = Len(v.v)
       ]_vars

\* A list failed at its second element and the field kept its old list.
NoPartialCommitWitness ==
    /\ pc = "done"
    /\ data = MapV(<< <<"nums", SeqV(<<IntV(7), StrV("BLUE")>>)>> >>)
    /\ err # NoErr
    /\ msg0 = Populated
    /\ msg["nums"] = [has |-> TRUE, val |-> <<9>>]

\* The value to expect for a null element of a list of f.
ZeroElement(f) == IF f.kind = "message" THEN EmptyMessage(f.ref) ELSE 0

\* C4: list decoding is positionally faithful.  If every element of the
\* input sequence is null or decodes, the field is set to a list of as many
\* elements, element i being the decoded input element i, or the zero value
\* of the element kind where input element i is null.
ListPositionallyFaithful ==
    [][(/\ AtEntry
        /\ findField(target, Head(rest)[1], options).name # ""
        /\ Field(target, findField(target, Head(rest)[1], options).name).card = "list"
        /\ Head(rest)[2].t = "seq"
        /\ LET f == Field(target, findField(target, Head(rest)[1], options).name)
           IN  \A i \in DOMAIN Head(rest)[2].v :
                  \/ Head(rest)[2].v[i].t = "null"
                  \/ decodeFieldKind(Head(rest)[2].v[i], NewElement(f), f, options).err
                        = NoErr)
          => LET f == Field(target, findField(target, Head(rest)[1], options).name)
                 els == Head(rest)[2].v
             IN  /\ err' = NoErr
                 /\ msg'[f.name].has
                 /\ Len(msg'[f.name].val) = Len(els)
                 /\ \A i \in DOMAIN els :
                       msg'[f.name].val[i] =
                          IF els[i].t = "null" THEN ZeroElement(f)
                          ELSE decodeFieldKind(els[i], NewElement(f), f, options).val
       ]_vars

\* [null, 7] became [0, 7].
ListWitness ==
    /\ pc = "done"
    /\ err = NoErr
    /\ data = MapV(<< <<"nums", SeqV(<<Null, IntV(7)>>)>> >>)
    /\ msg0 = Populated
    /\ msg["nums"] = [has |-> TRUE, val |-> <<0, 7>>]

\* C5: error localization.  An error returned for the value of a resolved
\* field (a failed coercion, a float or double literal mismatch, a list value
\* that is no sequence, a nested message value that is no mapping, an
\* unsupported kind) carries the name of the field.
ErrorsCarryFieldName ==
    (/\ pc = "done"
     /\ rest # << >>
     /\ err.kind \in {"expected", "expected_float64", "expected_float32",
                      "expected_message", "unexpected_kind"})
        => err.field # ""

\* C6: each destination field is set at most once by the range loop over
\* one mapping.
SetAtMostOnce == \A n \in DOMAIN sets : sets[n] <= 1

\* The value expected for an enum name.
Numbered(str) == CASE str = "RED" -> 0 [] str = "BLUE" -> 1 [] OTHER -> 0

\* C7: permissive enum decoding.  A string decodes into an enum field
\* without error: to the number of the name if the value table has it, to 0
\* otherwise; the same holds element by element in a list of enums.
PermissiveEnum ==
    [][(/\ AtEntry
        /\ findField(target, Head(rest)[1], options).name # ""
        /\ Field(target, findField(target, Head(rest)[1], options).name).kind = "enum")
          => LET f == Field(target, findField(target, Head(rest)[1], options).name)
                 v == Head(rest)[2]
             IN  /\ (f.card = "one" /\ v.t = "str") =>
                       /\ err' = NoErr
                       /\ msg'[f.name] = [has |-> TRUE, val |-> Numbered(v.v)]
                 /\ (f.card = "list" /\ v.t = "seq"
                       /\ \A i \in DOMAIN v.v : v.v[i].t = "str") =>
                       /\ err' = NoErr
                       /\ msg'[f.name] =
                             [has |-> TRUE,
                              val |-> [i \in DOMAIN v.v |-> Numbered(v.v[i].v)]]
       ]_vars

\* "GREEN" replaced BLUE by the value numbered 0.
PermissiveEnumWitness ==
    /\ pc = "done"
    /\ err = NoErr
    /\ data = MapV(<< <<"colorTag", StrV("GREEN")>> >>)
    /\ msg0 = Populated
    /\ msg0["color_tag"].val = 1
    /\ msg["color_tag"] = [has |-> TRUE, val |-> 0]

\* C8: null writes nothing.  decodeMessage of null returns nil and leaves
\* the destination alone, for a well-known type too; a null under a name
\* that resolves to a schema field is consumed without error and without a
\* write.
NullWritesNothing ==
    [][/\ (pc = "start" /\ cur.t = "null") =>
              (pc' = "done" /\ err' = NoErr /\ msg' = msg)
       /\ (/\ AtEntry
           /\ Head(rest)[2].t = "null"
           /\ Head(rest)[1] \in JSONNames(target) \cup FieldNames(target))
             => (err' = NoErr /\ msg' = msg /\ sets' = sets /\ rest' = Tail(rest))
      ]_vars

\* A null for a list field that holds a list: the list is still there.
NullWitness ==
    /\ pc = "done"
    /\ err = NoErr
    /\ data = MapV(<< <<"nums", Null>> >>)
    /\ msg0 = Populated
    /\ msg = msg0
    /\ msg["nums"].val = <<9>>

\* The field with this JSON name.
FieldOfJSON(desc, name) ==
    Fields(desc)[CHOOSE i \in DOMAIN Fields(desc) : Fields(desc)[i].json = name]

\* C9: resolution priority and ignored extras.  An entry whose name is a
\* JSON name is decoded into the field with that JSON name; otherwise, one
\* whose name is a text name is decoded into that field; otherwise, one whose
\* name is an extra field of the options causes no error and no write.  A
\* name that is a field and an extra field is decoded into the field.
ResolutionPriority ==
    [][AtEntry =>
          LET k == Head(rest)[1]
              v == Head(rest)[2]
              into(f) == /\ err' = decodeField(v, msg, f, options).err
                         /\ msg' = decodeField(v, msg, f, options).msg
                         /\ (v.t # "null" /\ err' = NoErr) =>
                               /\ msg'[f.name].has
                               /\ sets'[f.name] = sets[f.name] + 1
          IN  IF k \in JSONNames(target) THEN into(FieldOfJSON(target, k))
              ELSE IF k \in FieldNames(target) THEN into(Field(target, k))
              ELSE IF k \in options
                   THEN err' = NoErr /\ msg' = msg /\ sets' = sets /\ pc' = "range"
              ELSE err' # NoErr
      ]_vars

\* "note_id" went to the field with that JSON name, and "id", a field and an
\* extra field, was decoded.
ResolutionWitness ==
    /\ pc = "done"
    /\ err = NoErr
    /\ options = {"extra", "id", MsgName}
    /\ data = MapV(<< <<"note_id", StrV("BLUE")>>, <<"id", IntV(7)>> >>)
    /\ msg0 = EmptyMessage(MsgName)
    /\ msg["memo"] = [has |-> TRUE, val |-> "BLUE"]
    /\ ~msg["note_id"].has
    /\ msg["id"] = [has |-> TRUE, val |-> 7]

\* C10: entry order is not significant.  Decoding the same mapping in any
\* other order of its entries fails if this run failed, and succeeds with the
\* same destination if this run succeeded.
OrderInsignificant ==
    (pc = "done" /\ ~isWKT(target) /\ data.t = "map") =>
        \A perm \in Permutations(DOMAIN data.v) :
            LET r == decodeMessage(MapV(Reordered(data.v, perm)), msg0, target, options)
            IN  /\ (r.err = NoErr) = (err = NoErr)
                /\ err = NoErr => r.msg = msg

====
